---- MODULE Spec2Model ----
(***************************************************************************)
(* Blinded onion-message routes: the `create` and `unwrap` subcommands of  *)
(* devtools/blindedpath (src/unnamed/part_000) and the TLV stream helpers   *)
(* declared in src/wire/tlvstream.h.                                        *)
(*                                                                         *)
(* Cryptographic primitives are computed in a small concrete group: the    *)
(* order-GroupQ subgroup of Z_GroupP^*, so that a public key is            *)
(* GroupG^k mod GroupP, a tweak is an exponentiation and a Diffie-Hellman  *)
(* agreement is decided by arithmetic, not assumed.  Keys are KeyBytes     *)
(* bytes wide instead of 32.  A digest is a number below GroupQ; the digest *)
(* 0 is no valid scalar, as a SHA-256 value of 0 or of the group order and  *)
(* above is none on secp256k1.                                              *)
(***************************************************************************)
EXTENDS Integers, Sequences, FiniteSets, TLC

\* ------------------------------------------------------------------ bounds

\* Longest route (number of node ids given to create).
MaxHops == 3

\* ------------------------------------------------------- bytes and hex text

Byte == 0..255

Pow2(k) == <<1, 2, 4, 8, 16, 32, 64, 128>>[k + 1]

\* bit k of byte b
BitOf(b, k) == (b \div Pow2(k)) % 2

\* b with bit k inverted
FlipBit(b, k) == IF BitOf(b, k) = 1 THEN b - Pow2(k) ELSE b + Pow2(k)

XorBit(a, b, k) == IF BitOf(a, k) = BitOf(b, k) THEN 0 ELSE Pow2(k)

XorByte(a, b) ==
    XorBit(a, b, 0) + XorBit(a, b, 1) + XorBit(a, b, 2) + XorBit(a, b, 3)
    + XorBit(a, b, 4) + XorBit(a, b, 5) + XorBit(a, b, 6) + XorBit(a, b, 7)

\* A character of an argument or of printed text: 0..15 are the hex digits,
\* NonHexChar any other character, SlashChar the '/' separator.
NonHexChar == 16
SlashChar == 17

\* tal_hex / tal_hexstr: two hex digits per byte
tal_hex(bytes) ==
    [j \in 1..(2 * Len(bytes)) |->
        IF j % 2 = 1 THEN bytes[(j + 1) \div 2] \div 16 ELSE bytes[j \div 2] % 16]

IsHexText(str) == \A j \in 1..Len(str) : str[j] \in 0..15

HexBytes(str) ==
    [j \in 1..(Len(str) \div 2) |-> str[2 * j - 1] * 16 + str[2 * j]]

\* hex_decode(str, slen, buf, bufsize): succeeds only on exactly 2*bufsize hex
\* digits.  The result is [ok, bytes].
hex_decode(str, bufsize) ==
    IF Len(str) = 2 * bufsize /\ IsHexText(str)
    THEN [ok |-> TRUE, bytes |-> HexBytes(str)]
    ELSE [ok |-> FALSE, bytes |-> <<>>]

\* a prefix length that takes the whole argument
strcspn_WholeString(str) == Len(str)

\* strcspn(str, "/"): length of the prefix before the first '/'
strcspn(str) ==
    LET stops == {j \in 1..Len(str) : str[j] = SlashChar}
    IN IF stops = {} THEN Len(str)
       ELSE (CHOOSE j \in stops : \A k \in stops : j <= k) - 1

\* big-endian value of a byte string
RECURSIVE BeFold(_, _, _)
BeFold(bytes, j, acc) ==
    IF j > Len(bytes) THEN acc ELSE BeFold(bytes, j + 1, acc * 256 + bytes[j])

BeValue(bytes) == BeFold(bytes, 1, 0)

\* ---------------------------------------------------------------- the group

\* struct privkey / struct secret hold 32 bytes; the model's hold KeyBytes.
KeyBytes == 2
\* compressed public key: one prefix byte and the coordinate
PUBKEY_CMPR_LEN == KeyBytes + 1

GroupQ == 5003
GroupP == 10007
GroupG == 4

\* x squared in the group (x is evaluated once)
SqMod(x) == CHOOSE r \in {(v * v) % GroupP : v \in {x}} : TRUE

\* base^e mod GroupP by square-and-multiply
RECURSIVE ModExp(_, _)
ModExp(base, e) ==
    IF e = 0 THEN 1
    ELSE IF e % 2 = 1 THEN (SqMod(ModExp(base, e \div 2)) * base) % GroupP
    ELSE SqMod(ModExp(base, e \div 2))

\* secp256k1_ec_seckey_verify: a scalar is valid when 1 <= k < group order
ValidScalar(k) == k >= 1 /\ k < GroupQ

\* a point of the group other than the identity
ValidPoint(pt) == pt >= 2 /\ pt < GroupP /\ ModExp(pt, GroupQ) = 1

KeyBe(v) == <<v \div 256, v % 256>>

\* pubkey_to_der: the compressed serialisation
pubkey_to_der(pt) == <<2>> \o KeyBe(pt)

\* pubkey_from_der: [ok, pt]
pubkey_from_der(bytes) ==
    IF Len(bytes) = PUBKEY_CMPR_LEN /\ bytes[1] = 2
       /\ ValidPoint(BeValue(Tail(bytes)))
    THEN [ok |-> TRUE, pt |-> BeValue(Tail(bytes))]
    ELSE [ok |-> FALSE, pt |-> 0]

\* pubkey_from_hexstr(str, slen, key): decode slen characters, then parse
pubkey_from_hexstr(str, slen) ==
    LET d == hex_decode(SubSeq(str, 1, slen), PUBKEY_CMPR_LEN)
    IN IF d.ok THEN pubkey_from_der(d.bytes) ELSE [ok |-> FALSE, pt |-> 0]

\* type_to_string(tmpctx, struct pubkey, key): hex of the compressed key
pubkey_to_hexstr(pt) == tal_hex(pubkey_to_der(pt))

\* pubkey_from_privkey: [ok, pt]
pubkey_from_privkey(k) ==
    IF ValidScalar(k) THEN [ok |-> TRUE, pt |-> ModExp(GroupG, k)]
    ELSE [ok |-> FALSE, pt |-> 0]

\* secp256k1_ec_pubkey_tweak_mul: [ok, pt]
pubkey_tweak_mul(pt, tweak) ==
    IF ValidScalar(tweak) THEN [ok |-> TRUE, pt |-> ModExp(pt, tweak)]
    ELSE [ok |-> FALSE, pt |-> pt]

\* a scalar tweak that adds instead of multiplying
privkey_tweak_mul_Add(k, tweak) ==
    IF ValidScalar(tweak) /\ ValidScalar(k)
    THEN [ok |-> TRUE, k |-> 1 + ((k + tweak) % (GroupQ - 1))]
    ELSE [ok |-> FALSE, k |-> k]

\* secp256k1_ec_privkey_tweak_mul: [ok, k]
privkey_tweak_mul(k, tweak) ==
    IF ValidScalar(tweak) /\ ValidScalar(k)
    THEN [ok |-> TRUE, k |-> (k * tweak) % GroupQ]
    ELSE [ok |-> FALSE, k |-> k]

\* ------------------------------------------------------------------ digests

\* the compression of the bytes from position j on
RECURSIVE ShaFold(_, _)
ShaFold(bytes, j) ==
    IF j > Len(bytes) THEN 4919
    ELSE (ShaFold(bytes, j + 1) * 263 + bytes[j] * 7 + j) % GroupP

\* the final mixing of a compressed value
ShaFinal(v) == (SqMod(v) * 3 + v * 5 + 1) % GroupP

\* SHA-256 of a byte string, as the number its digest denotes: 0..GroupQ-1,
\* of which 0 is refused as a scalar by the tweak functions
sha256(bytes) ==
    CHOOSE d \in {ShaFinal(v) % GroupQ : v \in {ShaFold(bytes, 1)}} : TRUE

\* secp256k1_ecdh with the default hash: SHA-256 of the compressed product
\* point; fails on an invalid scalar.  [ok, ss]
secp256k1_ecdh(pt, k) ==
    IF ValidScalar(k)
    THEN [ok |-> TRUE, ss |-> sha256(pubkey_to_der(ModExp(pt, k)))]
    ELSE [ok |-> FALSE, ss |-> 0]

LabelRho == <<114, 104, 111>>
LabelBlindedNodeId ==
    <<98, 108, 105, 110, 100, 101, 100, 95, 110, 111, 100, 101, 95, 105, 100>>

\* subkey_from_hmac(prefix, base, key): HMAC-SHA256 keyed by the label
subkey_from_hmac(label, ss) ==
    sha256(<<54>> \o label \o KeyBe(ss) \o <<92>> \o label)

\* hash_e_and_ss: SHA256(der(E) || ss)
hash_e_and_ss(e_pt, ss) == sha256(pubkey_to_der(e_pt) \o KeyBe(ss))

\* --------------------------------------------------------------------- AEAD

\* crypto_aead_chacha20poly1305_ietf_ABYTES: the tag appended to a ciphertext
AEAD_ABYTES == 16

\* Poly1305 evaluates a polynomial over a prime field
PolyP == 10007

\* npub: the 12-byte nonce, all bytes zero (lines 167 and 219)
ZeroNonce == 0

\* ChaCha20 keystream byte j under key and nonce
KeyStream(key, npub, j) == (key * (j + 3) + 5 * j * j + 11 + 97 * npub) % 256

StreamXor(key, npub, bytes) ==
    [j \in 1..Len(bytes) |-> XorByte(bytes[j], KeyStream(key, npub, j))]

\* the one-time Poly1305 key (r, s) of a key and nonce
PolyR(key, npub) == 1 + ((key * 31 + 7 + 1009 * npub) % (PolyP - 1))
PolyS(key, npub) == (key * 17 + 11 + 499 * npub) % PolyP

\* the polynomial with the bytes from position j on as coefficients, at r
RECURSIVE PolyEval(_, _, _)
PolyEval(r, bytes, j) ==
    IF j > Len(bytes) THEN 0
    ELSE ((PolyEval(r, bytes, j + 1) + bytes[j] + 256) * r) % PolyP

\* the tag: a little-endian number of AEAD_ABYTES bytes
Poly1305Tag(key, npub, ct) ==
    CHOOSE tag \in {[j \in 1..AEAD_ABYTES |->
                        IF j = 1 THEN t % 256 ELSE IF j = 2 THEN t \div 256 ELSE 0] :
                    t \in {(PolyEval(PolyR(key, npub), ct, 1)
                          + PolyS(key, npub)) % PolyP}} : TRUE

\* crypto_aead_chacha20poly1305_ietf_encrypt(c, NULL, m, mlen, NULL, 0, NULL,
\* npub, k): ciphertext followed by the tag
aead_encrypt(m, npub, key) ==
    LET ct == StreamXor(key, npub, m) IN ct \o Poly1305Tag(key, npub, ct)

\* crypto_aead_chacha20poly1305_ietf_decrypt: [ret, m]; ret is 0 when the tag
\* verifies; otherwise -1, and m is zeroed.  The caller guarantees
\* Len(c) >= AEAD_ABYTES.
aead_decrypt(c, npub, key) ==
    LET n == Len(c) - AEAD_ABYTES
        ct == SubSeq(c, 1, n)
        tag == SubSeq(c, n + 1, Len(c))
    IN IF tag = Poly1305Tag(key, npub, ct)
       THEN [ret |-> 0, m |-> StreamXor(key, npub, ct)]
       ELSE [ret |-> -1, m |-> [j \in 1..n |-> 0]]

\* ------------------------------------------------------------ bigsize, TLV

\* bigsize_put: the minimal encoding of a length or type
bigsize_put(v) ==
    IF v < 253 THEN <<v>>
    ELSE IF v < 65536 THEN <<253, v \div 256, v % 256>>
    ELSE <<254, v \div 16777216, (v \div 65536) % 256, (v \div 256) % 256,
           v % 256>>

\* fromwire_bigsize: [ok, val, rest]; a truncated or non-minimal encoding fails
fromwire_bigsize(bytes) ==
    LET fail == [ok |-> FALSE, val |-> 0, rest |-> <<>>]
        n == Len(bytes)
    IN IF n = 0 THEN fail
       ELSE IF bytes[1] < 253
       THEN [ok |-> TRUE, val |-> bytes[1], rest |-> Tail(bytes)]
       ELSE IF bytes[1] = 253
       THEN IF n >= 3 /\ BeValue(SubSeq(bytes, 2, 3)) >= 253
            THEN [ok |-> TRUE, val |-> BeValue(SubSeq(bytes, 2, 3)),
                  rest |-> SubSeq(bytes, 4, n)]
            ELSE fail
       ELSE IF bytes[1] = 254
       THEN IF n >= 5 /\ bytes[2] < 128 /\ BeValue(SubSeq(bytes, 2, 5)) >= 65536
            THEN [ok |-> TRUE, val |-> BeValue(SubSeq(bytes, 2, 5)),
                  rest |-> SubSeq(bytes, 6, n)]
            ELSE fail
       ELSE fail

\* struct tlv_field: meta is <<>> when unset, else <<the schema entry>>
tlv_field(meta, numtype, length, value) ==
    [meta |-> meta, numtype |-> numtype, length |-> length, value |-> value]

\* a field of no known type holding value
TlvField(numtype, value) == tlv_field(<<>>, numtype, Len(value), value)

\* towire_tlvstream_raw: every field as type, length, value
RECURSIVE towire_tlvstream_raw(_)
towire_tlvstream_raw(fields) ==
    IF fields = <<>> THEN <<>>
    ELSE bigsize_put(Head(fields).numtype) \o bigsize_put(Head(fields).length)
         \o Head(fields).value \o towire_tlvstream_raw(Tail(fields))

\* The raw fields of a byte stream: [ok, fields].  Reads (type, length, value)
\* triples until the cursor is exhausted; fails when truncated mid-field or
\* when a declared length exceeds the remaining bytes.
RECURSIVE fromwire_tlv_fields(_)
fromwire_tlv_fields(bytes) ==
    IF bytes = <<>> THEN [ok |-> TRUE, fields |-> <<>>]
    ELSE LET t == fromwire_bigsize(bytes)
             l == fromwire_bigsize(t.rest)
         IN IF ~t.ok \/ ~l.ok \/ l.val > Len(l.rest)
            THEN [ok |-> FALSE, fields |-> <<>>]
            ELSE LET more == fromwire_tlv_fields(
                                 SubSeq(l.rest, l.val + 1, Len(l.rest)))
                 IN IF more.ok
                    THEN [ok |-> TRUE,
                          fields |-> <<tlv_field(<<>>, t.val, l.val,
                                                 SubSeq(l.rest, 1, l.val))>>
                                     \o more.fields]
                    ELSE more

\* The schema tables of the generated wire code, restricted to the fields
\* blindedpath sets or reads: a sequence of [type, field], ascending by type.
tlvs_onionmsg_payload ==
    <<[type |-> 4, field |-> "next_node_id"], [type |-> 10, field |-> "enctlv"]>>
tlvs_encmsg_tlvs == <<[type |-> 4, field |-> "next_node_id"]>>

\* tlv_onionmsg_payload_new / tlv_encmsg_tlvs_new: every field NULL.  A field
\* is <<>> when NULL and <<v>> when set.
tlv_onionmsg_payload_new == [next_node_id |-> <<>>, enctlv |-> <<>>]

\* struct tlv_record_type.towire: the marshalled value of a present field
towire_field(field, v) == IF field = "next_node_id" THEN pubkey_to_der(v) ELSE v

\* struct tlv_record_type.fromwire: [ok, v]
fromwire_field(field, bytes) ==
    IF field = "next_node_id"
    THEN LET k == pubkey_from_der(bytes) IN [ok |-> k.ok, v |-> k.pt]
    ELSE [ok |-> TRUE, v |-> bytes]

\* towire_tlvs(pptr, types, num_types, record): for each type of the table in
\* order, the field's (type, length, value) when its towire yields a value
RECURSIVE towire_tlvs(_, _)
towire_tlvs(types, record) ==
    IF types = <<>> THEN <<>>
    ELSE LET t == Head(types)
         IN (IF record[t.field] = <<>> THEN <<>>
             ELSE towire_tlvstream_raw(
                      <<TlvField(t.type, towire_field(t.field, record[t.field][1]))>>))
            \o towire_tlvs(Tail(types), record)

\* an encoder that does not look at the order of its table
TypesAscending_NotChecked(types) == TRUE

\* the encoder's assertion: types[i].type > types[i-1].type for every i > 0
TypesAscending(types) ==
    \A j \in 2..Len(types) : types[j].type > types[j - 1].type

\* a call of towire_tlvs: the assertion fails and nothing is produced, or the
\* stream is appended
towire_tlvs_call(types, record) ==
    IF TypesAscending(types)
    THEN [asserted |-> FALSE, bytes |-> towire_tlvs(types, record)]
    ELSE [asserted |-> TRUE, bytes |-> <<>>]

towire_encmsg_tlvs(record) == towire_tlvs(tlvs_encmsg_tlvs, record)
towire_onionmsg_payload(record) == towire_tlvs(tlvs_onionmsg_payload, record)

\* the table's entry for a type id: <<entry>> or <<>>
FindRecordType(types, numtype) ==
    SelectSeq(types, LAMBDA t : t.type = numtype)

\* [ok, record, fields]: the typed record and the raw fields (meta unset, i.e.
\* absent from the table, for the unknown ones)
RECURSIVE FromwireFields(_, _, _)
FromwireFields(types, fields, record) ==
    IF fields = <<>> THEN [ok |-> TRUE, record |-> record]
    ELSE LET f == Head(fields)
             meta == FindRecordType(types, f.numtype)
         IN IF meta = <<>> THEN FromwireFields(types, Tail(fields), record)
            ELSE LET v == fromwire_field(meta[1].field, f.value)
                 IN IF v.ok
                    THEN FromwireFields(types, Tail(fields),
                             [record EXCEPT ![meta[1].field] = <<v.v>>])
                    ELSE [ok |-> FALSE, record |-> record]

\* a decoder that retains only the fields its table knows
KeptFields_KnownOnly(types, fields) ==
    SelectSeq([k \in 1..Len(fields) |->
                  [fields[k] EXCEPT !.meta = FindRecordType(types, fields[k].numtype)]],
              LAMBDA f : f.meta # <<>>)

\* the fields a decoder retains: every field read, with meta set for the
\* types of the table
KeptFields(types, fields) ==
    [k \in 1..Len(fields) |->
        [fields[k] EXCEPT !.meta = FindRecordType(types, fields[k].numtype)]]

\* fromwire_tlvs(cursor, max, types, num_types, record)
fromwire_tlvs(types, bytes) ==
    LET raw == fromwire_tlv_fields(bytes)
        typed == FromwireFields(types, raw.fields, tlv_onionmsg_payload_new)
    IN [ok |-> raw.ok /\ typed.ok, record |-> typed.record,
        fields |-> KeptFields(types, raw.fields)]

fromwire_onionmsg_payload(bytes) == fromwire_tlvs(tlvs_onionmsg_payload, bytes)
fromwire_encmsg_tlvs(bytes) == fromwire_tlvs(tlvs_encmsg_tlvs, bytes)

\* A u64 is its 8 bytes, most significant first; a u32 its 4.
U64_BYTES == 8
U32_BYTES == 4

\* number of leading zero bytes
LeadingZeros(bytes) ==
    Cardinality({k \in 1..Len(bytes) : \A m \in 1..k : bytes[m] = 0})

\* an encoder that writes all the bytes of the value
towire_tu64_FixedWidth(v) == v

\* towire_tu64: the value without its leading zero bytes
towire_tu64(v) == SubSeq(v, LeadingZeros(v) + 1, Len(v))

\* towire_tu32
towire_tu32(v) == towire_tu64([k \in 1..(U64_BYTES - U32_BYTES) |-> 0] \o v)

\* fromwire_tu64: [ok, v]; more than 8 bytes or a leading zero byte fails
fromwire_tu64(bytes) ==
    IF Len(bytes) > U64_BYTES \/ (bytes # <<>> /\ bytes[1] = 0)
    THEN [ok |-> FALSE, v |-> [k \in 1..U64_BYTES |-> 0]]
    ELSE [ok |-> TRUE, v |-> [k \in 1..(U64_BYTES - Len(bytes)) |-> 0] \o bytes]

\* tlvstream_set_raw: a field of the type holding the value joins the stream
tlvstream_set_raw(stream, type, value) == Append(stream, TlvField(type, value))

tlvstream_set_tu64(stream, type, v) == tlvstream_set_raw(stream, type, towire_tu64(v))

tlvstream_set_tu32(stream, type, v) == tlvstream_set_raw(stream, type, towire_tu32(v))

\* the stream's field of a type: <<field>> or <<>>
tlvstream_get_raw(stream, type) ==
    SubSeq(SelectSeq(stream, LAMBDA f : f.numtype = type), 1, 1)

\* tlvstream_get_tu64: [ok, v]
tlvstream_get_tu64(stream, type) ==
    IF tlvstream_get_raw(stream, type) = <<>>
    THEN [ok |-> FALSE, v |-> [k \in 1..U64_BYTES |-> 0]]
    ELSE fromwire_tu64(tlvstream_get_raw(stream, type)[1].value)

\* tlvstream_get_tu32: [ok, v]; a value above UINT32_MAX fails
tlvstream_get_tu32(stream, type) ==
    LET g == tlvstream_get_tu64(stream, type)
    IN IF g.ok /\ LeadingZeros(g.v) >= U64_BYTES - U32_BYTES
       THEN [ok |-> TRUE, v |-> SubSeq(g.v, U64_BYTES - U32_BYTES + 1, U64_BYTES)]
       ELSE [ok |-> FALSE, v |-> [k \in 1..U32_BYTES |-> 0]]

\* ------------------------------------------------------------------ inputs

\* private keys of the nodes a route may name
NodePrivKeys == {257, 514}

NodeIds == {pubkey_from_privkey(k).pt : k \in NodePrivKeys}

\* a create argument with a "/<scid>" suffix
WithScid(str) == str \o <<SlashChar, 1, NonHexChar, 2>>

\* the arguments create is tried with: each node id, one of them with a scid
\* suffix, and a well-formed hex string that is no point of the curve
NodeArgs ==
    {pubkey_to_hexstr(pt) : pt \in NodeIds}
    \cup {WithScid(pubkey_to_hexstr(pubkey_from_privkey(257).pt))}
    \cup {tal_hex(<<2, 0, 5>>)}

\* the private-key arguments unwrap is tried with: each node's key, the zero
\* key (well-formed hex, no valid scalar) and a string that is not hex
PrivArgs ==
    {tal_hex(KeyBe(k)) : k \in NodePrivKeys}
    \cup {tal_hex(KeyBe(0)), <<0, 1, NonHexChar, 1>>}

\* ---------------------------------------------------- the mix-net packet

\* struct onionpacket, as far as blindedpath reads it: the ephemeral key, and
\* per remaining hop the shared secret that opens the layer and its payload
NoPacket == [ephemeralkey |-> 0, hops |-> <<>>]

\* the blinding factor sphinx applies to the ephemeral key between hops
SphinxBlind(eph, ss) == sha256(pubkey_to_der(eph) \o KeyBe(ss))

\* the layers for path (a sequence of [pubkey, payload]) from position j on,
\* the session scalar being x there
RECURSIVE SphinxHops(_, _, _)
SphinxHops(path, j, x) ==
    IF j > Len(path) THEN <<>>
    ELSE CHOOSE hops \in
           {<<[ss |-> ss, payload |-> path[j].payload]>>
              \o SphinxHops(path, j + 1,
                            (x * SphinxBlind(ModExp(GroupG, x), ss)) % GroupQ) :
            ss \in {secp256k1_ecdh(path[j].pubkey, x).ss}} : TRUE

\* create_onionpacket: the packet for a path under session key x
create_onionpacket(path, x) ==
    [ephemeralkey |-> ModExp(GroupG, x), hops |-> SphinxHops(path, 1, x)]

\* the serialised packet as given on the command line: whether the text is
\* hex of the right length, the version byte, and the packet it holds
OnionText(hexok, version, pkt) ==
    [hexok |-> hexok, version |-> version, pkt |-> pkt]

\* serialize_onionpacket, printed with tal_hex
serialize_onionpacket(pkt) == OnionText(TRUE, 0, pkt)

\* parse_onionpacket: 0 and the packet, or an error code
parse_onionpacket(onion) ==
    IF onion.version = 0 /\ ValidPoint(onion.pkt.ephemeralkey)
    THEN [ret |-> 0, op |-> onion.pkt]
    ELSE [ret |-> 1, op |-> NoPacket]

ONION_END == "ONION_END"
ONION_FORWARD == "ONION_FORWARD"

NoStep == [ok |-> FALSE, raw_payload |-> <<>>, nextcase |-> ONION_END,
           next |-> NoPacket]

\* process_onionpacket(ctx, op, shared_secret, ...): the route step, or NULL
\* (ok = FALSE) when the secret does not open the outermost layer
process_onionpacket(op, ss) ==
    IF op.hops # <<>> /\ op.hops[1].ss = ss
    THEN [ok |-> TRUE,
          raw_payload |-> op.hops[1].payload,
          nextcase |-> IF Len(op.hops) = 1 THEN ONION_END ELSE ONION_FORWARD,
          next |-> [ephemeralkey |->
                        ModExp(op.ephemeralkey, SphinxBlind(op.ephemeralkey, ss)),
                    hops |-> Tail(op.hops)]]
    ELSE NoStep

\* -------------------------------------------------------------------- state

VARIABLES
    pc,        \* position of the running process in main; "idle" between runs
    cmd,       \* argv[1] of the running process
    argv,      \* create: the node arguments argv[2..]
    out,       \* lines printed to stdout by the running process
    exitcode,  \* -1 while running; 0, 1 (errx) or 134 (abort)
    errmsg,    \* the message of errx
    num, i, e, pk_e, b, nodes, rho,   \* create's locals
    encs,      \* AEAD encryptions made by this run: <<key, nonce, plaintext>>
    prev,      \* the previous completed create run
    first,     \* unwrap: --first-node was given
    uin,       \* unwrap: the arguments and the payload it is given
    uw,        \* unwrap's locals
    sent,      \* what the sender of the route in flight derived (create's arrays)
    wire,      \* a caller of the TLV stream helpers: its inputs and results
    net        \* the onion and blinding point in flight, and how far they are

vars == <<pc, cmd, argv, out, exitcode, errmsg, num, i, e, pk_e, b, nodes, rho,
          encs, prev, first, uin, uw, sent, net, wire>>

unwrapVars == <<first, uin, uw>>
netVars == <<sent, net>>

createVars == <<num, i, e, pk_e, b, nodes, rho>>

NoRun == [argv |-> <<>>, nodes |-> <<>>, pk_e0 |-> 0, out |-> <<>>, encs |-> {}]

NoTamper == [kind |-> "none", byte |-> 0, bit |-> 0]

NoInput == [argc |-> 0, priv |-> <<>>, onion |-> OnionText(FALSE, 0, NoPacket),
            blinding |-> <<>>, tamper |-> NoTamper]

NoLocals == [privkey |-> 0, blinding |-> 0, op |-> NoPacket, ss |-> 0, rho |-> 0,
             hmac |-> 0, res |-> 0, onion_ss |-> 0, rs |-> NoStep,
             outer |-> tlv_onionmsg_payload_new, dec |-> <<>>]

NoSent == [nodes |-> <<>>, b |-> <<>>, pk_e |-> <<>>, rho |-> <<>>]

NoNet == [built |-> FALSE, onion |-> NoPacket, blinding |-> <<>>, hop |-> 0,
          x |-> 0]

NoWire == [at |-> "idle", width |-> 0, type |-> 0, value |-> <<>>, stream |-> <<>>,
           got |-> [ok |-> FALSE, v |-> <<>>], bytes |-> <<>>,
           decoded |-> [ok |-> FALSE, record |-> tlv_onionmsg_payload_new,
                        fields |-> <<>>],
           reencoded |-> <<>>,
           types |-> <<>>, record |-> tlv_onionmsg_payload_new, encoded |-> <<>>]

Init ==
    /\ pc = "idle"
    /\ cmd = ""
    /\ argv = <<>>
    /\ out = <<>>
    /\ exitcode = -1
    /\ errmsg = ""
    /\ num = 0 /\ i = 0 /\ e = 0
    /\ pk_e = <<>> /\ b = <<>> /\ nodes = <<>> /\ rho = <<>>
    /\ encs = {}
    /\ prev = NoRun
    /\ first = FALSE
    /\ uin = NoInput
    /\ uw = NoLocals
    /\ sent = NoSent
    /\ net = NoNet
    /\ wire = NoWire

Line(kind, text) == [kind |-> kind, text |-> text, onion |-> OnionText(FALSE, 0, NoPacket)]

\* a diagnostic that leaves the exit code at 0
Errx_ExitZero(msg) ==
    /\ pc' = "exit"
    /\ exitcode' = 0
    /\ errmsg' = msg

\* errx(1, msg)
Errx(msg) ==
    /\ pc' = "exit"
    /\ exitcode' = 1
    /\ errmsg' = msg

\* abort()
Abort ==
    /\ pc' = "exit"
    /\ exitcode' = 134
    /\ errmsg' = ""

\* return from main
Exit0 ==
    /\ pc' = "exit"
    /\ exitcode' = 0
    /\ errmsg' = ""

Running(at) ==
    /\ pc' = at
    /\ UNCHANGED <<exitcode, errmsg>>

\* ------------------------------------------------------------------- create

\* memset(&e, 6, sizeof(e)): every byte of the scalar is 6
DiceRoll == BeValue([j \in 1..KeyBytes |-> 6])

\* main, lines 107-130: no subcommand, or create's argument check and set-up
MainUsage ==
    /\ pc = "idle"
    /\ \E c \in {"", "other"} :
          /\ cmd' = c
          /\ Errx(IF c = "" THEN "You must specify create or unwrap"
                  ELSE "Either create or unwrap!")
    /\ UNCHANGED <<argv, out, createVars, encs, prev, unwrapVars, netVars, wire>>

CreateStart ==
    /\ pc = "idle"
    /\ cmd' = "create"
    /\ \E n \in 0..MaxHops : \E args \in [1..n -> NodeArgs] :
          /\ argv' = args
          /\ num' = n
          /\ IF n = 0
             THEN /\ Errx("create requires at least one nodeid")
                  /\ UNCHANGED <<e, pk_e>>
             ELSE /\ e' = DiceRoll
                  /\ IF pubkey_from_privkey(DiceRoll).ok
                     THEN /\ pk_e' = <<pubkey_from_privkey(DiceRoll).pt>>
                          /\ Running("create_loop")
                     ELSE /\ pk_e' = <<>>
                          /\ Abort
    /\ i' = 0
    /\ UNCHANGED <<out, b, nodes, rho, encs, prev, unwrapVars, netVars, wire>>

\* a loop that tweaks the first node id too
BlindedId_TweakAll(idx, node, hmac) == pubkey_tweak_mul(node, hmac)

\* b[i], lines 147-152: [ok, pt]
BlindedId(idx, node, hmac) ==
    IF idx # 0 THEN pubkey_tweak_mul(node, hmac) ELSE [ok |-> TRUE, pt |-> node]

\* a derivation loop that stops after its first iteration
DeriveLoopDone_AfterFirst(idx, n) == idx >= 1

\* line 132: the loop ends when i < num fails
DeriveLoopDone(idx, n) == ~(idx < n)

\* one iteration of the derivation loop, lines 132-158
CreateDerive ==
    /\ pc = "create_loop"
    /\ \E node \in {pubkey_from_hexstr(argv[i + 1], strcspn(argv[i + 1]))} :
       \E ss \in {secp256k1_ecdh(node.pt, e)} :
       \E hmac \in {subkey_from_hmac(LabelBlindedNodeId, ss.ss)} :
       \E bi \in {BlindedId(i, node.pt, hmac)} :
       \E h \in {hash_e_and_ss(pk_e[i + 1], ss.ss)} :
       \E nextpk \in {IF i # num - 1 THEN pubkey_tweak_mul(pk_e[i + 1], h)
                      ELSE [ok |-> TRUE, pt |-> pk_e[i + 1]]} :
       \E nexte \in {privkey_tweak_mul(e, h)} :
          IF ~node.ok
          THEN /\ Errx("not a valid pubkey")
               /\ UNCHANGED createVars
          ELSE IF ~ss.ok \/ ~bi.ok \/ ~nextpk.ok \/ ~nexte.ok
          THEN /\ Abort
               /\ UNCHANGED createVars
          ELSE /\ nodes' = Append(nodes, node.pt)
               /\ b' = Append(b, bi.pt)
               /\ rho' = Append(rho, subkey_from_hmac(LabelRho, ss.ss))
               /\ pk_e' = IF i # num - 1 THEN Append(pk_e, nextpk.pt) ELSE pk_e
               /\ e' = nexte.k
               /\ i' = i + 1
               /\ Running(IF ~DeriveLoopDone(i + 1, num) THEN "create_loop"
                          ELSE "create_blinding")
               /\ UNCHANGED num
    /\ UNCHANGED <<cmd, argv, out, encs, prev, unwrapVars, netVars, wire>>

\* lines 160-162
CreatePrintBlinding ==
    /\ pc = "create_blinding"
    /\ out' = Append(out, Line("Blinding", pubkey_to_hexstr(pk_e[1])))
    /\ i' = 0
    /\ Running(IF 0 < num - 1 THEN "create_hops" ELSE "create_last")
    /\ UNCHANGED <<cmd, argv, num, e, pk_e, b, nodes, rho, encs, prev, unwrapVars, netVars, wire>>

\* an inner TLV that names the hop itself
InnerPayload_Self(j) ==
    towire_encmsg_tlvs([tlv_onionmsg_payload_new
                           EXCEPT !.next_node_id = <<nodes[j + 1]>>])

\* the inner TLV of hop j (0-based), lines 171-177
InnerPayload(j) ==
    towire_encmsg_tlvs([tlv_onionmsg_payload_new
                           EXCEPT !.next_node_id = <<nodes[j + 2]>>])

\* the outer TLV around a ciphertext, lines 179-192
OuterPayload(enctlv) ==
    towire_onionmsg_payload([tlv_onionmsg_payload_new
                                EXCEPT !.enctlv = <<enctlv>>])

\* a hop line without the length prefix
HopText_NoLength(id, lenprefix, payload) ==
    pubkey_to_hexstr(id) \o <<SlashChar>> \o tal_hex(payload)

\* the text printed for a hop, lines 193-200 and 203-204
HopText(id, lenprefix, payload) ==
    pubkey_to_hexstr(id) \o <<SlashChar>> \o tal_hex(lenprefix) \o tal_hex(payload)

\* nonces that vary from run to run
CreateNonces_Random == {ZeroNonce, ZeroNonce + 1}

\* the nonces create encrypts under, line 167
CreateNonces == {ZeroNonce}

\* one iteration of the output loop, lines 164-201
CreatePrintHop ==
    /\ pc = "create_hops"
    /\ \E npub \in CreateNonces :
       \E p \in {InnerPayload(i)} :
       \E outer \in {OuterPayload(aead_encrypt(p, npub, rho[i + 1]))} :
          /\ encs' = encs \cup {<<rho[i + 1], npub, p>>}
          /\ out' = Append(out, Line("Hop", HopText(b[i + 1],
                                         bigsize_put(Len(outer)), outer)))
    /\ i' = i + 1
    /\ Running(IF i + 1 < num - 1 THEN "create_hops" ELSE "create_last")
    /\ UNCHANGED <<cmd, argv, num, e, pk_e, b, nodes, rho, prev, unwrapVars, netVars, wire>>

\* lines 202-204, and the return from main
CreatePrintLast ==
    /\ pc = "create_last"
    /\ out' = Append(out, Line("Hop", HopText(b[num], <<0>>, <<>>)))
    /\ Exit0
    /\ UNCHANGED <<cmd, argv, createVars, encs, prev, unwrapVars, netVars, wire>>

\* a fresh process: nothing of the last one's memory or output remains
FreshProcess ==
    /\ pc' = "idle"
    /\ cmd' = ""
    /\ argv' = <<>>
    /\ out' = <<>>
    /\ exitcode' = -1
    /\ errmsg' = ""
    /\ num' = 0 /\ i' = 0 /\ e' = 0
    /\ pk_e' = <<>> /\ b' = <<>> /\ nodes' = <<>> /\ rho' = <<>>
    /\ encs' = {}
    /\ first' = FALSE /\ uin' = NoInput /\ uw' = NoLocals

\* The process has ended; the next one starts from scratch.  A completed
\* create run is remembered for comparison with the next.
NextProcess ==
    /\ pc = "exit"
    /\ prev' = IF cmd = "create" /\ exitcode = 0
               THEN [argv |-> argv, nodes |-> nodes, pk_e0 |-> pk_e[1],
                     out |-> out, encs |-> encs]
               ELSE prev
    /\ FreshProcess
    /\ UNCHANGED <<netVars, wire>>


\* ------------------------------------------------------- the onion in flight

\* session keys the onion is built under
SessionKeys == {1799}

\* one "<blindedId>/<payload>" entry of create's output, as the onion tool
\* reads it
ParseHop(text) ==
    [pubkey |-> pubkey_from_hexstr(text, strcspn(text)).pt,
     payload |-> HexBytes(SubSeq(text, strcspn(text) + 2, Len(text)))]

\* The route create printed is wrapped into an onion for its blinded ids, and
\* the onion and the printed blinding point go to the first hop.
BuildOnion ==
    /\ pc = "exit" /\ cmd = "create" /\ exitcode = 0
    /\ ~net.built
    /\ \E x \in SessionKeys :
          net' = [built |-> TRUE,
                  onion |-> create_onionpacket(
                                [j \in 1..(Len(out) - 1) |-> ParseHop(out[j + 1].text)],
                                x),
                  blinding |-> out[1].text,
                  hop |-> 0,
                  x |-> x]
    /\ sent' = [nodes |-> nodes, b |-> b, pk_e |-> pk_e, rho |-> rho]
    /\ FreshProcess
    /\ UNCHANGED <<prev, wire>>

\* A hop that unwrapped a forwarding layer hands the printed next onion and
\* next blinding point to the next hop.
HandOn ==
    /\ pc = "exit" /\ cmd = "unwrap" /\ exitcode = 0
    /\ Len(out) = 3
    /\ net' = [net EXCEPT
                 !.onion = out[3].onion.pkt,
                 !.blinding = out[2].text,
                 !.hop = @ + 1,
                 !.x = (@ * SphinxBlind(net.onion.ephemeralkey,
                                        net.onion.hops[1].ss)) % GroupQ]
    /\ FreshProcess
    /\ UNCHANGED <<prev, sent, wire>>

\* ------------------------------------------------------------------- unwrap

\* bits of a byte that tampering may invert
FlipBits == 0..7

\* the raw fields of a framed payload (length prefix, then the TLV stream)
PayloadFields(payload) ==
    fromwire_tlv_fields(fromwire_bigsize(payload).rest).fields

\* a TLV stream framed the way the onion carries it
Frame(fields) ==
    bigsize_put(Len(towire_tlvstream_raw(fields))) \o towire_tlvstream_raw(fields)

\* the ways the payload of the current hop may differ from what create printed
Tampers(payload) ==
    LET fields == PayloadFields(payload)
    IN {NoTamper, [kind |-> "junk", byte |-> 0, bit |-> 0]}
       \cup (IF fields = <<>>
             THEN {[kind |-> "add", byte |-> 0, bit |-> 0]}
             ELSE {[kind |-> "drop", byte |-> 0, bit |-> 0],
                   [kind |-> "short", byte |-> 0, bit |-> 0]}
                  \cup {[kind |-> "flip", byte |-> j, bit |-> k] :
                          j \in 1..Len(fields[1].value), k \in FlipBits})

Tamper(t, payload) ==
    LET fields == PayloadFields(payload)
    IN CASE t.kind = "none" -> payload
         [] t.kind = "junk" -> <<2, 10, 5>>
         [] t.kind = "add" -> Frame(<<TlvField(10, [j \in 1..AEAD_ABYTES |-> 0])>>)
         [] t.kind = "drop" -> Frame(<<>>)
         [] t.kind = "short" ->
              Frame(<<TlvField(10, SubSeq(fields[1].value, 1, AEAD_ABYTES - 1))>>)
         [] t.kind = "flip" ->
              Frame(<<TlvField(10, [fields[1].value EXCEPT
                                      ![t.byte] = FlipBit(@, t.bit)])>>)

\* lines 221-222
UnwrapStart ==
    /\ pc = "idle"
    /\ net.built
    /\ cmd' = "unwrap"
    /\ \E f \in BOOLEAN, argc \in {4, 5} :
          /\ first' = f
          /\ uin' = [NoInput EXCEPT !.argc = argc]
          /\ IF argc # 5
             THEN Errx("unwrap requires privkey, onion and blinding")
             ELSE Running("u_privkey")
    /\ UNCHANGED <<argv, out, createVars, encs, prev, uw, netVars, wire>>

\* lines 224-226
UnwrapPrivkey ==
    /\ pc = "u_privkey"
    /\ \E a \in PrivArgs :
          /\ uin' = [uin EXCEPT !.priv = a]
          /\ IF ~hex_decode(a, KeyBytes).ok
             THEN /\ Errx("Invalid private key hex")
                  /\ UNCHANGED uw
             ELSE /\ uw' = [uw EXCEPT !.privkey = BeValue(hex_decode(a, KeyBytes).bytes)]
                  /\ Running("u_onion")
    /\ UNCHANGED <<cmd, argv, out, createVars, encs, prev, first, netVars, wire>>

\* lines 228-230
UnwrapOnion ==
    /\ pc = "u_onion"
    /\ \E o \in {OnionText(TRUE, 0, net.onion), OnionText(FALSE, 0, net.onion),
                 OnionText(TRUE, 1, net.onion)} :
          /\ uin' = [uin EXCEPT !.onion = o]
          /\ IF ~o.hexok THEN Errx("Invalid onion") ELSE Running("u_blinding")
    /\ UNCHANGED <<cmd, argv, out, createVars, encs, prev, first, uw, netVars, wire>>

\* a well-formed point that is not the blinding point in flight
OtherPoint == pubkey_from_privkey(1).pt

\* lines 232-233
UnwrapBlinding ==
    /\ pc = "u_blinding"
    /\ \E t \in {net.blinding, tal_hex(<<2, 0, 5>>), pubkey_to_hexstr(OtherPoint)} :
       \E k \in {pubkey_from_hexstr(t, Len(t))} :
          /\ uin' = [uin EXCEPT !.blinding = t]
          /\ IF ~k.ok
             THEN /\ Errx("Invalid blinding")
                  /\ UNCHANGED uw
             ELSE /\ uw' = [uw EXCEPT !.blinding = k.pt]
                  /\ Running("u_parse")
    /\ UNCHANGED <<cmd, argv, out, createVars, encs, prev, first, netVars, wire>>

\* lines 235-236
UnwrapParse ==
    /\ pc = "u_parse"
    /\ IF parse_onionpacket(uin.onion).ret # 0
       THEN /\ Errx("Unparsable onion")
            /\ UNCHANGED uw
       ELSE /\ uw' = [uw EXCEPT !.op = parse_onionpacket(uin.onion).op]
            /\ Running("u_derive")
    /\ UNCHANGED <<cmd, argv, out, createVars, encs, prev, first, uin, netVars, wire>>

\* a second ECDH that tweaks the onion's key whatever the flag
OnionPoint_AlwaysTweak(isfirst, ephemeralkey, hmac) ==
    pubkey_tweak_mul(ephemeralkey, hmac)

\* a second ECDH that never tweaks the onion's key
OnionPoint_NeverTweak(isfirst, ephemeralkey, hmac) ==
    [ok |-> TRUE, pt |-> ephemeralkey]

\* the point of the second ECDH, lines 252-258: [ok, pt]
OnionPoint(isfirst, ephemeralkey, hmac) ==
    IF ~isfirst THEN pubkey_tweak_mul(ephemeralkey, hmac)
    ELSE [ok |-> TRUE, pt |-> ephemeralkey]

\* lines 238-263
UnwrapDerive ==
    /\ pc = "u_derive"
    /\ \E ss \in {secp256k1_ecdh(uw.blinding, uw.privkey)} :
       \E hmac \in {subkey_from_hmac(LabelBlindedNodeId, ss.ss)} :
       \E res \in {OnionPoint(first, uw.op.ephemeralkey, hmac)} :
       \E onion_ss \in {secp256k1_ecdh(res.pt, uw.privkey)} :
          IF ~ss.ok \/ ~res.ok \/ ~onion_ss.ok
          THEN /\ Abort
               /\ UNCHANGED uw
          ELSE /\ uw' = [uw EXCEPT !.ss = ss.ss,
                                   !.rho = subkey_from_hmac(LabelRho, ss.ss),
                                   !.hmac = hmac,
                                   !.res = res.pt,
                                   !.onion_ss = onion_ss.ss]
               /\ Running("u_process")
    /\ UNCHANGED <<cmd, argv, out, createVars, encs, prev, first, uin, netVars, wire>>

\* Lines 265-267.  The payload the layer carries is drawn here, where it is
\* first read: what create printed for the hop, or that altered before the
\* onion was built around it.
UnwrapProcess ==
    /\ pc = "u_process"
    /\ \E rs \in {process_onionpacket(uw.op, uw.onion_ss)} :
          IF ~rs.ok
          THEN /\ Errx("Could not process onionpacket")
               /\ UNCHANGED <<uw, uin>>
          ELSE \E t \in Tampers(rs.raw_payload) :
                  /\ uin' = [uin EXCEPT !.tamper = t]
                  /\ uw' = [uw EXCEPT !.rs = [rs EXCEPT !.raw_payload =
                                                 Tamper(t, rs.raw_payload)]]
                  /\ Running("u_payload")
    /\ UNCHANGED <<cmd, argv, out, createVars, encs, prev, first, netVars, wire>>

\* a test for the end of the route that looks at the payload, not the layer
IsTerminal_ByPayload(nextcase, outer) == outer.enctlv = <<>>

\* line 280: the mix-net layer says the route ends here
IsTerminal(nextcase, outer) == nextcase = ONION_END

\* lines 269-283
UnwrapPayload ==
    /\ pc = "u_payload"
    /\ \E len \in {fromwire_bigsize(uw.rs.raw_payload)} :
       \E outer \in {fromwire_onionmsg_payload(len.rest)} :
          IF len.ok /\ len.val # Len(len.rest)
          THEN /\ Abort
               /\ UNCHANGED <<uw, out>>
          ELSE IF ~len.ok \/ ~outer.ok
          THEN /\ Errx("Invalid payload")
               /\ UNCHANGED <<uw, out>>
          ELSE IF IsTerminal(uw.rs.nextcase, outer.record)
          THEN /\ out' = Append(out, Line("TERMINAL", <<>>))
               /\ Exit0
               /\ uw' = [uw EXCEPT !.outer = outer.record]
          ELSE /\ uw' = [uw EXCEPT !.outer = outer.record]
               /\ Running("u_enctlv")
               /\ UNCHANGED out
    /\ UNCHANGED <<cmd, argv, createVars, encs, prev, first, uin, netVars, wire>>

\* a caller that ignores the decryption's result
DecryptFailed_Never(ret) == FALSE

\* line 303: the decryption is refused
DecryptFailed(ret) == ret # 0

\* lines 285-304
UnwrapDecrypt ==
    /\ pc = "u_enctlv"
    /\ IF uw.outer.enctlv = <<>>
       THEN /\ Errx("No enctlv field")
            /\ UNCHANGED uw
       ELSE IF Len(uw.outer.enctlv[1]) < AEAD_ABYTES
       THEN /\ Errx("enctlv field too short")
            /\ UNCHANGED uw
       ELSE \E d \in {aead_decrypt(uw.outer.enctlv[1], ZeroNonce, uw.rho)} :
               IF DecryptFailed(d.ret)
               THEN /\ Errx("Failed to decrypt enctlv field")
                    /\ UNCHANGED uw
               ELSE /\ uw' = [uw EXCEPT !.dec = d.m]
                    /\ Running("u_contents")
    /\ UNCHANGED <<cmd, argv, out, createVars, encs, prev, first, uin, netVars, wire>>

\* line 306
UnwrapPrintContents ==
    /\ pc = "u_contents"
    /\ out' = Append(out, Line("Contents", tal_hex(uw.dec)))
    /\ Running("u_next_blinding")
    /\ UNCHANGED <<cmd, argv, createVars, encs, prev, unwrapVars, netVars, wire>>

\* a next blinding point tweaked by the shared secret itself
NextBlindingPoint_BySecret(blinding, ss) == pubkey_tweak_mul(blinding, ss)

\* lines 308-310: E(i+1) = H(E(i) || ss(i)) * E(i), [ok, pt]
NextBlindingPoint(blinding, ss) ==
    pubkey_tweak_mul(blinding, hash_e_and_ss(blinding, ss))

\* lines 308-312
UnwrapPrintBlinding ==
    /\ pc = "u_next_blinding"
    /\ \E res \in {NextBlindingPoint(uw.blinding, uw.ss)} :
          IF ~res.ok
          THEN /\ Abort
               /\ UNCHANGED <<uw, out>>
          ELSE /\ uw' = [uw EXCEPT !.res = res.pt]
               /\ out' = Append(out, Line("Next blinding", pubkey_to_hexstr(res.pt)))
               /\ Running("u_next_onion")
    /\ UNCHANGED <<cmd, argv, createVars, encs, prev, first, uin, netVars, wire>>

\* line 313, and the return from main
UnwrapPrintOnion ==
    /\ pc = "u_next_onion"
    /\ out' = Append(out, [Line("Next onion", <<>>) EXCEPT
                             !.onion = serialize_onionpacket(uw.rs.next)])
    /\ Exit0
    /\ UNCHANGED <<cmd, argv, createVars, encs, prev, unwrapVars, netVars, wire>>

\* ------------------------------------------- callers of the stream helpers

\* longest byte stream given to the decoder
MaxStreamLen == 4

\* bytes the streams and integers are made of
StreamBytes == {0, 1, 2, 4, 5, 253}

IntBytes == {0, 1, 255}

\* type ids the integer fields are written under
WireTypes == {1, 300}

processVars == <<pc, cmd, argv, out, exitcode, errmsg, createVars, encs, prev,
                 unwrapVars, netVars>>

\* tlvstream_set_tu64 / tlvstream_set_tu32 on an empty stream
WireSet ==
    /\ wire.at = "idle"
    /\ \E w \in {U32_BYTES, U64_BYTES}, t \in WireTypes :
       \E v \in [1..w -> IntBytes] :
          wire' = [NoWire EXCEPT
                     !.at = "set", !.width = w, !.type = t, !.value = v,
                     !.stream = IF w = U32_BYTES
                                THEN tlvstream_set_tu32(<<>>, t, v)
                                ELSE tlvstream_set_tu64(<<>>, t, v)]
    /\ UNCHANGED processVars

\* tlvstream_get_tu64 / tlvstream_get_tu32 of the type written
WireGet ==
    /\ wire.at = "set"
    /\ wire' = [wire EXCEPT
                  !.at = "got",
                  !.got = IF wire.width = U32_BYTES
                          THEN tlvstream_get_tu32(wire.stream, wire.type)
                          ELSE tlvstream_get_tu64(wire.stream, wire.type)]
    /\ UNCHANGED processVars

\* a byte stream is decoded against the onion-message schema
WireDecode ==
    /\ wire.at = "idle"
    /\ \E n \in 0..MaxStreamLen : \E bytes \in [1..n -> StreamBytes] :
          wire' = [NoWire EXCEPT
                     !.at = "decoded", !.bytes = bytes,
                     !.decoded = fromwire_onionmsg_payload(bytes)]
    /\ UNCHANGED processVars

\* the fields a successful decode retained are serialised again
WireReencode ==
    /\ wire.at = "decoded"
    /\ wire.decoded.ok
    /\ wire' = [wire EXCEPT
                  !.at = "reencoded",
                  !.reencoded = towire_tlvstream_raw(wire.decoded.fields)]
    /\ UNCHANGED processVars

\* longest types[] table given to the encoder
MaxTypes == 2

\* the records given to the encoder: each field absent or present, the
\* enctlv also present with no bytes
WireRecords ==
    [next_node_id : {<<>>} \cup {<<pt>> : pt \in NodeIds},
     enctlv : {<<>>, <<<<>>>>, <<<<7, 0, 9>>>>}]

\* towire_tlvs with a table in any order
WireEncode ==
    /\ wire.at = "idle"
    /\ \E n \in 0..MaxTypes :
       \E types \in [1..n -> {tlvs_onionmsg_payload[k] : k \in 1..2}] :
       \E record \in WireRecords :
       \E r \in {towire_tlvs_call(types, record)} :
          wire' = [NoWire EXCEPT
                     !.at = IF r.asserted THEN "asserted" ELSE "encoded",
                     !.types = types, !.record = record, !.encoded = r.bytes]
    /\ UNCHANGED processVars

WireNext ==
    \/ WireEncode
    \/ WireSet
    \/ WireGet
    \/ WireDecode
    \/ WireReencode

\* the TLV stream helpers, applied to drawn inputs
SpecWire == Init /\ [][WireNext]_vars

CreateNext ==
    \/ MainUsage
    \/ CreateStart
    \/ CreateDerive
    \/ CreatePrintBlinding
    \/ CreatePrintHop
    \/ CreatePrintLast
    \/ NextProcess

\* successive create runs
SpecCreate == Init /\ [][CreateNext]_vars

Next ==
    \/ MainUsage
    \/ (~net.built /\ CreateStart)
    \/ CreateDerive
    \/ CreatePrintBlinding
    \/ CreatePrintHop
    \/ CreatePrintLast
    \/ BuildOnion
    \/ UnwrapStart
    \/ UnwrapPrivkey
    \/ UnwrapOnion
    \/ UnwrapBlinding
    \/ UnwrapParse
    \/ UnwrapDerive
    \/ UnwrapProcess
    \/ UnwrapPayload
    \/ UnwrapDecrypt
    \/ UnwrapPrintContents
    \/ UnwrapPrintBlinding
    \/ UnwrapPrintOnion
    \/ HandOn

\* one route: create, then the onion built around it is unwrapped hop by hop
Spec == Init /\ [][Next]_vars

\* ------------------------------------------------------- another sender

\* Ephemeral scalars of a sender that is not create with its dice roll.  With
\* 3253 and the node of private key 514 the digest H(E(0) || ss(0)) is 0.
SenderKeys == {1001, 3253}

\* A sender derives a route of two nodes from its own ephemeral scalar the way
\* create does, and wraps it into an onion; where the ratchet's digest or the
\* second node's tweak is no valid scalar it carries on without that tweak.
OtherSenderOnion ==
    /\ pc = "idle"
    /\ ~net.built
    /\ \E s \in SenderKeys, n0 \in NodeIds, n1 \in NodeIds, x \in SessionKeys :
       \E ss0 \in {secp256k1_ecdh(n0, s).ss} :
       \E h0 \in {hash_e_and_ss(ModExp(GroupG, s), ss0)} :
       \E s1 \in {IF ValidScalar(h0) THEN (s * h0) % GroupQ ELSE s} :
       \E ss1 \in {secp256k1_ecdh(n1, s1).ss} :
       \E b1 \in {pubkey_tweak_mul(n1, subkey_from_hmac(LabelBlindedNodeId, ss1)).pt} :
       \E enctlv \in {aead_encrypt(
                          towire_encmsg_tlvs([tlv_onionmsg_payload_new
                                                 EXCEPT !.next_node_id = <<n1>>]),
                          ZeroNonce, subkey_from_hmac(LabelRho, ss0))} :
          /\ net' = [built |-> TRUE,
                     onion |-> create_onionpacket(
                                   <<[pubkey |-> n0,
                                      payload |-> Frame(<<TlvField(10, enctlv)>>)],
                                     [pubkey |-> b1, payload |-> Frame(<<>>)]>>, x),
                     blinding |-> pubkey_to_hexstr(ModExp(GroupG, s)),
                     hop |-> 0,
                     x |-> x]
          /\ sent' = [nodes |-> <<n0, n1>>,
                      b |-> <<n0, b1>>,
                      pk_e |-> <<ModExp(GroupG, s), ModExp(GroupG, s1)>>,
                      rho |-> <<subkey_from_hmac(LabelRho, ss0),
                                subkey_from_hmac(LabelRho, ss1)>>]
    /\ UNCHANGED <<pc, cmd, argv, out, exitcode, errmsg, createVars, encs, prev,
                   unwrapVars, wire>>

SenderNext ==
    \/ OtherSenderOnion
    \/ UnwrapStart
    \/ UnwrapPrivkey
    \/ UnwrapOnion
    \/ UnwrapBlinding
    \/ UnwrapParse
    \/ UnwrapDerive
    \/ UnwrapProcess
    \/ UnwrapPayload
    \/ UnwrapDecrypt
    \/ UnwrapPrintContents
    \/ UnwrapPrintBlinding
    \/ UnwrapPrintOnion
    \/ HandOn

\* a route of another sender is unwrapped hop by hop
SpecSender == Init /\ [][SenderNext]_vars

\* ------------------------------------------------------------------ claims

\* the private-key argument of the node at hop j (0-based) of the route sent
HopKeyText(j) ==
    tal_hex(KeyBe(CHOOSE k \in NodePrivKeys :
                      pubkey_from_privkey(k).pt = sent.nodes[j + 1]))

\* Every argument the running unwrap has read so far is the one the hop at
\* net.hop is meant to use: its own key, the onion and blinding point handed
\* to it, --first-node exactly at hop 0, and the payload create printed.
HonestSoFar ==
    /\ cmd = "unwrap"
    /\ uin.argc = 5
    /\ first = (net.hop = 0)
    /\ uin.priv \in {NoInput.priv, HopKeyText(net.hop)}
    /\ uin.onion \in {NoInput.onion, OnionText(TRUE, 0, net.onion)}
    /\ uin.blinding \in {NoInput.blinding, net.blinding}
    /\ uin.tamper = NoTamper

\* C1: when every hop unwraps with its own key, the blinding point handed on
\* and --first-node only at hop 0, a run of hop i < N-1 ends printing Contents
\* whose next_node_id is node i+1 (with Next blinding and Next onion), and a
\* run of hop N-1 ends printing TERMINAL; no such run fails.
C1_RoundTrip ==
    (pc = "exit" /\ HonestSoFar) =>
        /\ exitcode = 0
        /\ IF net.hop < Len(sent.nodes) - 1
           THEN /\ Len(out) = 3
                /\ out[1].kind = "Contents"
                /\ out[2].kind = "Next blinding"
                /\ out[3].kind = "Next onion"
                /\ fromwire_encmsg_tlvs(HexBytes(out[1].text)).ok
                /\ fromwire_encmsg_tlvs(HexBytes(out[1].text)).record.next_node_id
                     = <<sent.nodes[net.hop + 2]>>
           ELSE out = <<Line("TERMINAL", <<>>)>>

\* the third hop of a three-hop route has printed TERMINAL after the first two
\* were unwrapped in order
C1_Witness ==
    /\ pc = "exit" /\ HonestSoFar
    /\ Len(sent.nodes) = 3 /\ net.hop = 2
    /\ sent.nodes[2] # sent.nodes[1]
    /\ out = <<Line("TERMINAL", <<>>)>>

\* C2: no two AEAD encryptions of different plaintexts are made under the
\* same key and nonce, within a create run or across two of them.
C2_NoKeyReuse ==
    \A x \in encs \cup prev.encs : \A y \in encs \cup prev.encs :
        (x[1] = y[1] /\ x[2] = y[2]) => x[3] = y[3]

\* C3: an unwrap whose enctlv value differs in one bit from the one create
\* produced prints nothing and ends with "Failed to decrypt enctlv field".
C3_TamperDetected ==
    (cmd = "unwrap" /\ uin.tamper.kind = "flip") =>
        /\ out = <<>>
        /\ pc = "exit" => (exitcode = 1 /\ errmsg = "Failed to decrypt enctlv field")

\* the hop itself, with its own key, has refused a ciphertext with one bit of
\* its first byte inverted
C3_Witness ==
    /\ pc = "exit" /\ cmd = "unwrap"
    /\ uin.tamper.kind = "flip" /\ uin.tamper.byte = 1
    /\ uin.priv = HopKeyText(net.hop) /\ uin.blinding = net.blinding
    /\ first = (net.hop = 0)
    /\ errmsg = "Failed to decrypt enctlv field"

RECURSIVE SenderScalar(_, _)
SenderScalar(nodelist, j) ==
    IF j = 1 THEN DiceRoll
    ELSE CHOOSE r \in
           {(x * hash_e_and_ss(ModExp(GroupG, x),
                               secp256k1_ecdh(nodelist[j - 1], x).ss)) % GroupQ :
            x \in {SenderScalar(nodelist, j - 1)}} : TRUE

\* C5: b[0] is node 0 untweaked, and b[i] for i >= 1 is node i multiplied by
\* the blinded_node_id subkey of ss(i) = ECDH(e(i), node(i)).
C5_BlindedIds ==
    cmd = "create" =>
        \A j \in 1..Len(b) :
            b[j] = IF j = 1 THEN nodes[1]
                   ELSE ModExp(nodes[j],
                               subkey_from_hmac(LabelBlindedNodeId,
                                   secp256k1_ecdh(nodes[j],
                                                  SenderScalar(nodes, j)).ss))

\* three blinded ids are derived, the later two differing from the node ids
C5_Witness ==
    /\ cmd = "create" /\ Len(b) = 3
    /\ b[1] = nodes[1] /\ b[2] # nodes[2] /\ b[3] # nodes[3]

\* C6: the onion_ss a hop computes (with --first-node at hop 0, without it
\* later) is the secret the onion's sender shares with the blinded id create
\* printed for that hop: ECDH of the session scalar and b[i].
C6_OnionSecret ==
    (HonestSoFar /\ pc \in {"u_process", "u_payload", "u_enctlv", "u_contents",
                            "u_next_blinding", "u_next_onion", "exit"}) =>
        /\ uw.onion_ss = secp256k1_ecdh(sent.b[net.hop + 1], net.x).ss
        /\ uw.onion_ss = net.onion.hops[1].ss

\* a hop after the first has derived its onion_ss without the flag
C6_Witness ==
    /\ HonestSoFar /\ pc = "u_process"
    /\ net.hop = 1 /\ ~first
    /\ uw.onion_ss = secp256k1_ecdh(sent.b[2], net.x).ss

\* the run printed nothing and ended through errx(1, message)
FailedClean == exitcode = 1 /\ errmsg # "" /\ out = <<>>

\* C7: unwrap ends with exit code 1, a message and no output on a wrong
\* argument count, malformed private-key or onion hex, an invalid blinding
\* key, an unparsable onion, a forwarding payload without enctlv, an enctlv
\* shorter than the tag, and a failed decryption; create does so without a
\* node id or with one that is no valid public key.
C7_ErrorExits ==
    pc = "exit" =>
        /\ (cmd = "unwrap" /\ uin.argc # 5) => FailedClean
        /\ (cmd = "unwrap" /\ uin.priv # NoInput.priv
              /\ ~(Len(uin.priv) = 2 * KeyBytes /\ IsHexText(uin.priv))) => FailedClean
        /\ (cmd = "unwrap" /\ uin.onion # NoInput.onion
              /\ (~uin.onion.hexok \/ uin.onion.version # 0)) => FailedClean
        /\ (cmd = "unwrap" /\ uin.blinding # NoInput.blinding
              /\ ~pubkey_from_hexstr(uin.blinding, Len(uin.blinding)).ok) => FailedClean
        /\ (cmd = "unwrap" /\ uw.rs.ok /\ uw.rs.nextcase = ONION_FORWARD
              /\ fromwire_onionmsg_payload(fromwire_bigsize(uw.rs.raw_payload).rest).ok
              /\ LET enctlv == fromwire_onionmsg_payload(
                                   fromwire_bigsize(uw.rs.raw_payload).rest).record.enctlv
                 IN \/ enctlv = <<>>
                    \/ Len(enctlv[1]) < AEAD_ABYTES
                    \/ aead_decrypt(enctlv[1], ZeroNonce, uw.rho).ret # 0) => FailedClean
        /\ (cmd = "create"
              /\ (argv = <<>> \/ \E j \in 1..Len(argv) :
                      ~pubkey_from_hexstr(argv[j], strcspn(argv[j])).ok)) => FailedClean

\* an unwrap has refused an enctlv of fewer bytes than the tag
C7_Witness ==
    /\ pc = "exit" /\ cmd = "unwrap"
    /\ uw.outer.enctlv # <<>> /\ Len(uw.outer.enctlv[1]) < AEAD_ABYTES
    /\ exitcode = 1 /\ errmsg = "enctlv field too short"

\* C8: create prints the blinding point and then one entry per node, in the
\* order given: for each of the first N-1 the blinded id and a length-prefixed
\* TLV stream of exactly one enctlv field, AEAD_ABYTES longer than the
\* encoded inner TLV; for the last the blinded id and "00".
C8_OutputShape ==
    (cmd = "create" /\ pc = "exit" /\ exitcode = 0) =>
        /\ Len(out) = Len(argv) + 1
        /\ out[1] = Line("Blinding", pubkey_to_hexstr(pk_e[1]))
        /\ \A j \in 1..(Len(argv) - 1) :
              LET hop == ParseHop(out[j + 1].text)
                  len == fromwire_bigsize(hop.payload)
                  tlv == fromwire_tlv_fields(len.rest)
              IN /\ hop.pubkey = b[j]
                 /\ out[j + 1].text[strcspn(out[j + 1].text) + 1] = SlashChar
                 /\ len.ok /\ len.val = Len(len.rest)
                 /\ tlv.ok /\ Len(tlv.fields) = 1
                 /\ tlv.fields[1].numtype = 10
                 /\ tlv.fields[1].length = AEAD_ABYTES
                      + Len(towire_tlvstream_raw(
                              <<TlvField(4, pubkey_to_der(nodes[j + 1]))>>))
        /\ out[Len(argv) + 1].text
             = pubkey_to_hexstr(b[Len(argv)]) \o <<SlashChar, 0, 0>>

\* a route of three nodes has been printed
C8_Witness ==
    /\ cmd = "create" /\ pc = "exit" /\ exitcode = 0
    /\ Len(argv) = 3 /\ Len(out) = 4

\* C9: tu32/tu64 encode 0 as no bytes and any other value as its big-endian
\* bytes without a leading zero byte, and the getter returns the value set.
C9_MinimalInts ==
    /\ wire.at \in {"set", "got"} =>
          LET enc == wire.stream[1].value
          IN /\ Len(wire.stream) = 1
             /\ wire.stream[1].numtype = wire.type
             /\ wire.stream[1].length = Len(enc)
             /\ (enc = <<>>) <=> (\A k \in 1..wire.width : wire.value[k] = 0)
             /\ enc # <<>> => enc[1] # 0
             /\ Len(enc) <= wire.width
             /\ [k \in 1..(wire.width - Len(enc)) |-> 0] \o enc = wire.value
    /\ wire.at = "got" => (wire.got.ok /\ wire.got.v = wire.value)

\* a u64 with three leading zero bytes was written in five bytes and read back
C9_Witness ==
    /\ wire.at = "got"
    /\ wire.width = U64_BYTES
    /\ wire.value = <<0, 0, 0, 1, 0, 255, 0, 1>>
    /\ Len(wire.stream[1].value) = 5
    /\ wire.got.v = wire.value

\* C10: decode keeps a field of a type the schema lacks as its (numtype,
\* length, value) triple with meta unset, and serialising the decoded fields
\* again gives the bytes that were decoded.
C10_UnknownPassthrough ==
    /\ (wire.at \in {"decoded", "reencoded"} /\ wire.decoded.ok) =>
          \A k \in 1..Len(wire.decoded.fields) :
              LET f == wire.decoded.fields[k]
              IN /\ f.length = Len(f.value)
                 /\ FindRecordType(tlvs_onionmsg_payload, f.numtype) = <<>>
                      => f.meta = <<>>
    /\ wire.at = "reencoded" =>
          /\ wire.reencoded = wire.bytes
          /\ Len(wire.decoded.fields)
               = Len(fromwire_tlv_fields(wire.bytes).fields)

\* a field of the unknown type 5 holding two bytes was decoded, kept and
\* serialised again
C10_Witness ==
    /\ wire.at = "reencoded"
    /\ wire.bytes = <<5, 2, 253, 1>>
    /\ Len(wire.decoded.fields) = 1
    /\ wire.decoded.fields[1].numtype = 5
    /\ wire.decoded.fields[1].value = <<253, 1>>
    /\ wire.decoded.fields[1].meta = <<>>

\* positions of unwrap between the second ECDH and the reuse of res for the
\* next blinding point
AfterDerive == {"u_process", "u_payload", "u_enctlv", "u_contents", "u_next_blinding"}

\* C11 as stated: the point fed to the second ECDH is the received blinding
\* point E with --first-node, and otherwise E multiplied by the
\* blinded_node_id subkey of ss = ECDH(k, E).
C11_PointIsBlinding ==
    (cmd = "unwrap" /\ pc \in AfterDerive) =>
        uw.res = IF first THEN uw.blinding
                 ELSE ModExp(uw.blinding,
                             subkey_from_hmac(LabelBlindedNodeId,
                                 secp256k1_ecdh(uw.blinding, uw.privkey).ss))

\* C11: the point fed to the second ECDH is the onion packet's ephemeral key
\* with --first-node, and otherwise that key multiplied by the
\* blinded_node_id subkey of ss = ECDH(k, E), E the received blinding point;
\* onion_ss is the ECDH of the private key with that point.
C11_PointIsOnionKey ==
    (cmd = "unwrap" /\ pc \in AfterDerive) =>
        /\ uw.res = IF first THEN uw.op.ephemeralkey
                    ELSE ModExp(uw.op.ephemeralkey,
                                subkey_from_hmac(LabelBlindedNodeId,
                                    secp256k1_ecdh(uw.blinding, uw.privkey).ss))
        /\ uw.onion_ss = secp256k1_ecdh(uw.res, uw.privkey).ss

\* an unwrap without --first-node has tweaked an onion key that differs from
\* the blinding point it was given
C11_Witness ==
    /\ cmd = "unwrap" /\ pc = "u_process" /\ ~first
    /\ uw.op.ephemeralkey # uw.blinding
    /\ uw.res # uw.op.ephemeralkey
    /\ uw.res = ModExp(uw.op.ephemeralkey, uw.hmac)

\* the run has printed TERMINAL
PrintedTerminal == \E j \in 1..Len(out) : out[j].kind = "TERMINAL"

\* C12 as stated: TERMINAL is printed only when the mix-net layer signals the
\* end of the route and the outer payload carries no enctlv.
C12_TerminalOnlyWithoutEnctlv ==
    (cmd = "unwrap" /\ PrintedTerminal) =>
        (uw.rs.nextcase = ONION_END /\ uw.outer.enctlv = <<>>)

\* C12: TERMINAL is printed exactly when the mix-net layer signals the end of
\* the route, whether or not the outer payload carries an enctlv; a run that
\* prints anything else or succeeds at a forwarding layer has found an enctlv
\* of at least the tag length and printed its decryption.
C12_TerminalOnRouteEnd ==
    cmd = "unwrap" =>
        /\ PrintedTerminal =>
              (uw.rs.ok /\ uw.rs.nextcase = ONION_END
                 /\ out = <<Line("TERMINAL", <<>>)>> /\ exitcode = 0)
        /\ (pc = "exit" /\ exitcode = 0 /\ uw.rs.nextcase = ONION_END) =>
              PrintedTerminal
        /\ ((out # <<>> /\ ~PrintedTerminal)
              \/ (pc = "exit" /\ exitcode = 0 /\ uw.rs.nextcase = ONION_FORWARD)) =>
              /\ uw.rs.ok /\ uw.rs.nextcase = ONION_FORWARD
              /\ uw.outer.enctlv # <<>>
              /\ Len(uw.outer.enctlv[1]) >= AEAD_ABYTES
              /\ aead_decrypt(uw.outer.enctlv[1], ZeroNonce, uw.rho).ret = 0
              /\ out[1] = Line("Contents",
                     tal_hex(aead_decrypt(uw.outer.enctlv[1], ZeroNonce, uw.rho).m))

\* the last layer of a route carried an enctlv and the run printed TERMINAL
C12_Witness ==
    /\ cmd = "unwrap" /\ pc = "exit" /\ PrintedTerminal
    /\ uw.rs.nextcase = ONION_END
    /\ uw.outer.enctlv # <<>>

\* the running unwrap has derived its secrets with the key of the node at
\* net.hop and the sender's E(net.hop) as blinding point
DerivedAtHop ==
    /\ cmd = "unwrap"
    /\ pc \in AfterDerive \cup {"u_next_onion", "exit"}
    /\ uw.ss # NoLocals.ss
    /\ pubkey_from_privkey(uw.privkey).pt = sent.nodes[net.hop + 1]
    /\ uw.blinding = sent.pk_e[net.hop + 1]

\* C14: a hop that unwraps with the sender's E(i) derives the sender's ss(i)
\* and rho(i) and prints the sender's E(i+1) as Next blinding; the blinding
\* point in flight to hop i is always the E(i) create derived.
C14_ChainAgreement ==
    /\ (net.built /\ net.hop < Len(sent.nodes)) =>
          net.blinding = pubkey_to_hexstr(sent.pk_e[net.hop + 1])
    /\ DerivedAtHop =>
          /\ uw.ss = secp256k1_ecdh(sent.nodes[net.hop + 1],
                                    SenderScalar(sent.nodes, net.hop + 1)).ss
          /\ uw.rho = sent.rho[net.hop + 1]
          /\ Len(out) >= 2 =>
                /\ net.hop + 2 <= Len(sent.pk_e)
                /\ out[2] = Line("Next blinding",
                                 pubkey_to_hexstr(sent.pk_e[net.hop + 2]))

\* the second hop of a three-hop route has printed the sender's E(2)
C14_Witness ==
    /\ DerivedAtHop /\ pc = "exit" /\ net.hop = 1 /\ Len(sent.nodes) = 3
    /\ Len(out) = 3
    /\ out[2].text = pubkey_to_hexstr(sent.pk_e[3])
    /\ sent.pk_e[3] # sent.pk_e[2]

\* the text of a create argument before its first '/'
NodePart(str) ==
    SubSeq(str, 1, Cardinality({j \in 1..Len(str) :
                                   \A k \in 1..j : str[k] # SlashChar}))

\* two argument lists that differ at most in the text after '/'
SameNodeParts(args1, args2) ==
    /\ Len(args1) = Len(args2)
    /\ \A j \in 1..Len(args1) : NodePart(args1[j]) = NodePart(args2[j])

\* C15: a create run whose arguments differ from those of the run before only
\* after '/' prints the same blinding point, blinded ids and payloads, and a
\* run succeeds whenever the parts before '/' are valid public keys.
C15_ScidIgnored ==
    (cmd = "create" /\ pc = "exit") =>
        /\ (exitcode = 0 /\ prev.argv # <<>> /\ SameNodeParts(prev.argv, argv)) =>
              prev.out = out
        /\ (argv # <<>>
              /\ \A j \in 1..Len(argv) :
                    pubkey_from_hexstr(NodePart(argv[j]), Len(NodePart(argv[j]))).ok) =>
              exitcode = 0

\* a run with a scid suffix on its first argument follows one without it
C15_Witness ==
    /\ cmd = "create" /\ pc = "exit" /\ exitcode = 0
    /\ Len(argv) >= 2
    /\ SameNodeParts(prev.argv, argv)
    /\ argv[1] # prev.argv[1]
    /\ Len(argv[1]) > Len(NodePart(argv[1]))
    /\ prev.out = out

\* C17: at the start of every iteration i of create's derivation loop the
\* stored point pk_e[i] is the public key of the current scalar e; after the
\* loop the scalar has been advanced once per node and the points once less.
C17_KeypairConsistent ==
    cmd = "create" =>
        /\ pc = "create_loop" =>
              /\ i < num
              /\ Len(pk_e) = i + 1
              /\ pk_e[i + 1] = ModExp(GroupG, e)
              /\ e = SenderScalar(nodes, i + 1)
        /\ pc \in {"create_blinding", "create_hops", "create_last"} =>
              /\ Len(pk_e) = num
              /\ e = SenderScalar(nodes, num + 1)
              /\ pk_e[num] = ModExp(GroupG, SenderScalar(nodes, num))

\* the third iteration starts with a scalar and a point both advanced twice
C17_Witness ==
    /\ cmd = "create" /\ pc = "create_loop" /\ i = 2
    /\ e # DiceRoll
    /\ pk_e[3] = ModExp(GroupG, e)
    /\ pk_e[3] # pk_e[2] /\ pk_e[2] # pk_e[1]

\* the part of a create argument before '/' is the hex of a valid public key
ValidNodeArg(str) ==
    /\ hex_decode(NodePart(str), PUBKEY_CMPR_LEN).ok
    /\ pubkey_from_der(hex_decode(NodePart(str), PUBKEY_CMPR_LEN).bytes).ok

\* C18: create prints its first line only after every node id is parsed and
\* every blinded id and rho is derived; with an invalid node id at any
\* position it exits with code 1 having printed nothing.
C18_DeriveBeforeOutput ==
    cmd = "create" =>
        /\ out # <<>> =>
              /\ Len(nodes) = Len(argv) /\ Len(b) = Len(argv) /\ Len(rho) = Len(argv)
              /\ \A j \in 1..Len(argv) :
                    /\ ValidNodeArg(argv[j])
                    /\ nodes[j] = pubkey_from_der(
                           hex_decode(NodePart(argv[j]), PUBKEY_CMPR_LEN).bytes).pt
        /\ (pc = "exit" /\ \E j \in 1..Len(argv) : ~ValidNodeArg(argv[j])) =>
              (out = <<>> /\ exitcode = 1)

\* a run whose third and last node id is invalid has exited with no output
C18_Witness ==
    /\ cmd = "create" /\ pc = "exit" /\ exitcode = 1
    /\ Len(argv) = 3
    /\ ValidNodeArg(argv[1]) /\ ValidNodeArg(argv[2]) /\ ~ValidNodeArg(argv[3])
    /\ Len(b) = 2
    /\ out = <<>>

\* the entries of a table whose field the record holds, in table order
PresentTypes(types, record) ==
    SelectSeq(types, LAMBDA t : record[t.field] # <<>>)

\* C16: the encoder writes one (type, length, value) triple per present
\* field, in strictly ascending type order, and nothing for an absent field;
\* given a table that is not ascending it stops at its assertion and
\* produces no stream.
C16_EncodeOrdered ==
    /\ wire.at = "asserted" =>
          /\ \E j \in 2..Len(wire.types) :
                wire.types[j].type <= wire.types[j - 1].type
          /\ wire.encoded = <<>>
    /\ wire.at = "encoded" =>
          LET d == fromwire_tlv_fields(wire.encoded)
              present == PresentTypes(wire.types, wire.record)
          IN /\ \A j \in 2..Len(wire.types) :
                   wire.types[j].type > wire.types[j - 1].type
             /\ d.ok
             /\ Len(d.fields) = Len(present)
             /\ \A j \in 2..Len(d.fields) :
                   d.fields[j].numtype > d.fields[j - 1].numtype
             /\ \A j \in 1..Len(d.fields) :
                   /\ d.fields[j].numtype = present[j].type
                   /\ d.fields[j].length = Len(d.fields[j].value)
                   /\ d.fields[j].value
                        = towire_field(present[j].field,
                                       wire.record[present[j].field][1])

\* a two-entry table and a record holding only a zero-length enctlv gave the
\* single triple (10, 0, <<>>)
C16_Witness ==
    /\ wire.at = "encoded"
    /\ Len(wire.types) = 2
    /\ wire.record.next_node_id = <<>> /\ wire.record.enctlv = <<<<>>>>
    /\ wire.encoded = <<10, 0>>

\* C13: a run that has ended either succeeded with its complete output (the
\* blinding point and every hop of the route; TERMINAL; or Contents, Next
\* blinding and Next onion together) or failed having printed nothing.
C13_Atomic ==
    (pc = "exit" /\ cmd \in {"create", "unwrap"}) =>
        IF exitcode = 0
        THEN \/ cmd = "create" /\ Len(out) = Len(argv) + 1
             \/ cmd = "unwrap" /\ out = <<Line("TERMINAL", <<>>)>>
             \/ cmd = "unwrap" /\ Len(out) = 3
                  /\ out[1].kind = "Contents"
                  /\ out[2].kind = "Next blinding"
                  /\ out[3].kind = "Next onion"
        ELSE out = <<>>

====
